---- MODULE Spec2Model ----
(***************************************************************************)
(* Model of ludwig/features/timeseries_feature.py: the preprocessing of a  *)
(* time-series column (get_feature_meta, add_timeseries_matrix_profile,    *)
(* build_matrix, feature_data) and the propagation of the metadata to the  *)
(* input feature (update_config_with_metadata).                            *)
(*                                                                         *)
(* A Python str is a sequence of one-character strings; None is the        *)
(* one-element sequence <<"None">>; a float is a natural number, NaN is a  *)
(* negative one; a numpy matrix is a sequence of rows.                     *)
(***************************************************************************)
EXTENDS Integers, Sequences, FiniteSets, TLC

\* ------------------------------------------------------------------ bounds
MaxCol == 3
MaxWin == 3
MaxLimit == 3

\* ----------------------------------------------------------- basic values
None == <<"None">>
NaN == -1
Digits == <<"0", "1", "2", "3", "4", "5", "6", "7", "8", "9">>
IsDigit(c) == \E d \in 1..10 : Digits[d] = c
DigitVal(c) == (CHOOSE d \in 1..10 : Digits[d] = c) - 1

Min(a, b) == IF a < b THEN a ELSE b
Max(a, b) == IF a > b THEN a ELSE b

\* the values of a column: '' (the fill_value), scalars, longer series
ColumnValues ==
    {<<>>, <<"1">>, <<"2">>, <<"1", " ", "2">>, <<"2", " ", "1", " ", "2">>}
PaddingModes == {"right", "left"}
PaddingValues == {0}
MPValues == {0, 1, NaN}

RECURSIVE SeqsUpTo(_, _)
SeqsUpTo(S, n) ==
    IF n = 0 THEN {<<>>}
    ELSE LET shorter == SeqsUpTo(S, n - 1)
         IN  shorter \cup {Append(s, x) : s \in {t \in shorter : Len(t) = n - 1}, x \in S}

\* ------------------------------------------------------------ conversions
\* str(j) of a non-negative float, digit by digit
RECURSIVE FloatToStr(_)
FloatToStr(n) ==
    IF n < 10 THEN <<Digits[n + 1]>>
    ELSE Append(FloatToStr(n \div 10), Digits[(n % 10) + 1])

\* a token converts to float iff it is a non-empty run of digits
IsFloatStr(tok) == Len(tok) > 0 /\ \A i \in 1..Len(tok) : IsDigit(tok[i])

RECURSIVE StrToFloat(_)
StrToFloat(tok) ==
    IF Len(tok) = 1 THEN DigitVal(tok[1])
    ELSE 10 * StrToFloat(SubSeq(tok, 1, Len(tok) - 1)) + DigitVal(tok[Len(tok)])

\* ' '.join(strs)
RECURSIVE Join(_)
Join(strs) ==
    IF Len(strs) = 0 THEN <<>>
    ELSE IF Len(strs) = 1 THEN strs[1]
    ELSE strs[1] \o <<" ">> \o Join(Tail(strs))

\* text.strip()
RECURSIVE Strip(_)
Strip(s) ==
    IF s = <<>> THEN s
    ELSE IF Head(s) = " " THEN Strip(Tail(s))
    ELSE IF s[Len(s)] = " " THEN Strip(SubSeq(s, 1, Len(s) - 1))
    ELSE s

\* re.split(r'\s+', s) of a stripped string, left to right
RECURSIVE SplitAcc(_, _, _)
SplitAcc(s, cur, acc) ==
    IF s = <<>> THEN Append(acc, cur)
    ELSE IF Head(s) = " "
         THEN IF Tail(s) # <<>> /\ Head(Tail(s)) = " "
              THEN SplitAcc(Tail(s), cur, acc)
              ELSE SplitAcc(Tail(s), <<>>, Append(acc, cur))
         ELSE SplitAcc(Tail(s), Append(cur, Head(s)), acc)

\* the 'space' tokenizer of the tokenizer registry
tokenizer(text) == SplitAcc(Strip(text), <<>>, <<>>)

\* Python truth value of a row: None and '' are false
Truthy(ts) == ts # None /\ ts # <<>>

\* --------------------------------------------------------- get_feature_meta
RECURSIVE MaxTokens(_)
MaxTokens(col) ==
    IF col = <<>> THEN 0
    ELSE Max(Len(tokenizer(Head(col))), MaxTokens(Tail(col)))

\* the metadata dict returned for a column
get_feature_meta(col, preprocessing_parameters) ==
    [has |-> TRUE,
     max_timeseries_length |->
         Min(preprocessing_parameters.timeseries_length_limit, MaxTokens(col))]

\* ------------------------------------------------------------- build_matrix
\* the float32 vector of one row; rows that are None or '' become [padding_value]
TokensOf(ts) == tokenizer(ts)
VectorOK(ts) ==
    ~Truthy(ts) \/ \A k \in 1..Len(TokensOf(ts)) : IsFloatStr(TokensOf(ts)[k])
ts_vector(ts, padding_value) ==
    IF Truthy(ts)
    THEN [k \in 1..Len(TokensOf(ts)) |-> StrToFloat(TokensOf(ts)[k])]
    ELSE <<padding_value>>

RECURSIVE MaxLen(_)
MaxLen(vectors) ==
    IF vectors = <<>> THEN 0 ELSE Max(Len(Head(vectors)), MaxLen(Tail(vectors)))

\* variant: the width follows the longest row seen, capped by the limit
max_length_capped(ts_vectors, length_limit) == Min(MaxLen(ts_vectors), length_limit)

\* the number of columns: the longest row is only logged, the limit is used
max_length(ts_vectors, length_limit) == length_limit

\* variant: the 'left' mode keeps the tail of a long row
pad_row_tail(vector, width, padding_value, padding) ==
    LET limit == Min(Len(vector), width)
    IN  IF padding = "right"
        THEN [c \in 1..width |-> IF c <= limit THEN vector[c] ELSE padding_value]
        ELSE [c \in 1..width |->
                 IF c > width - limit
                 THEN vector[Len(vector) - limit + (c - (width - limit))]
                 ELSE padding_value]

\* one row of the matrix: np.full(padding_value), then the slice assignment
pad_row(vector, width, padding_value, padding) ==
    LET limit == Min(Len(vector), width)
    IN  IF padding = "right"
        THEN [c \in 1..width |-> IF c <= limit THEN vector[c] ELSE padding_value]
        ELSE [c \in 1..width |->
                 IF c > width - limit THEN vector[c - (width - limit)] ELSE padding_value]

build_matrix(timeseries, length_limit, padding_value, padding) ==
    IF \E i \in 1..Len(timeseries) : ~VectorOK(timeseries[i])
    THEN [err |-> "ValueError(float)", matrix |-> <<>>]
    ELSE LET ts_vectors == [i \in 1..Len(timeseries) |->
                               ts_vector(timeseries[i], padding_value)]
             width == max_length(ts_vectors, length_limit)
         IN  [err |-> "none",
              matrix |-> [i \in 1..Len(timeseries) |->
                             pad_row(ts_vectors[i], width, padding_value, padding)]]

\* ---------------------------------------------------------- build_stumpy_mp
\* np.array(column, dtype=np.floating) succeeds iff every value is one number
ColumnIsFloat(col) == \A i \in 1..Len(col) : IsFloatStr(col[i])

\* the outcomes of build_stumpy_mp: an exception, or column 0 of a profile
\* with len(column) - seq_length + 1 rows whose values the library decides
build_stumpy_mp(col, seq_length) ==
    IF ~ColumnIsFloat(col) THEN {[err |-> "Exception", mp |-> <<>>]}
    ELSE IF seq_length < 3 \/ seq_length > Len(col)
         THEN {[err |-> "ValueError(stumpy)", mp |-> <<>>]}
         ELSE {[err |-> "none", mp |-> p] :
                  p \in [1..(Len(col) - seq_length + 1) -> MPValues]}

\* -------------------------------------------- add_timeseries_matrix_profile
\* str(j): a column value is already a str, a profile value is a float
PyStr(j, is_profile) == IF is_profile THEN FloatToStr(j) ELSE j
\* pd.isnull(j)
IsNull(j, is_profile) == IF is_profile THEN j = NaN ELSE j = None

\* matrix_profile[lo:hi] with Python's clipping, lo and hi 0-based
Slice(s, lo, hi) == SubSeq(s, lo + 1, Min(hi, Len(s)))

\* np.concatenate([window_pad, mp]), window_pad being copies of mp[0]
backfill(mp, window_pad_length) ==
    [k \in 1..window_pad_length |-> mp[1]] \o mp

\* stumpy is an outcome of build_stumpy_mp, used only with the option set
add_timeseries_matrix_profile(col, seq_length, preprocessing_parameters, stumpy) ==
    LET is_profile == preprocessing_parameters.matrix_profile
        mp == IF is_profile THEN stumpy.mp ELSE col
        window_pad_length == seq_length - 1
        failed(e) == [err |-> e, mp |-> <<>>, matrix_profile |-> <<>>,
                      window_data |-> <<>>]
    IN  IF is_profile /\ stumpy.err # "none" THEN failed(stumpy.err)
        ELSE IF mp = <<>> THEN failed("IndexError")
        ELSE LET matrix_profile == backfill(mp, window_pad_length)
             IN  IF \E k \in 1..Len(matrix_profile) :
                        IsNull(matrix_profile[k], is_profile)
                 THEN [failed("Exception") EXCEPT !.mp = mp,
                                                  !.matrix_profile = matrix_profile]
                 ELSE [err |-> "none", mp |-> mp,
                       matrix_profile |-> matrix_profile,
                       window_data |->
                           [k \in 1..window_pad_length |-> None] \o
                           [k \in 1..(Len(col) - window_pad_length) |->
                               LET index == window_pad_length + k - 1
                                   window == Slice(matrix_profile,
                                                   index - window_pad_length,
                                                   index + 1)
                               IN  Join([j \in 1..Len(window) |->
                                            PyStr(window[j], is_profile)])]]

\* ------------------------------------------------------------------- state
VARIABLES
    pc,                               \* how far the preprocessing has come
    column,                           \* the raw column, one str per dataset row
    preprocessing_parameters,         \* the preprocessing section of the feature
    metadata,                         \* the feature's metadata dict
    global_preprocessing_parameters,  \* receives 'offset'
    input_feature,                    \* the input feature's config dict
    mp,                               \* add_timeseries_matrix_profile: mp
    matrix_profile,                   \*   the back-filled matrix_profile
    window_data,                      \*   its return value
    timeseries,                       \* build_matrix: the rows it was given
    length_limit,                     \*   the length_limit it was given
    timeseries_matrix,                \*   its return value
    err                               \* the exception raised by the last call

vars == <<pc, column, preprocessing_parameters, metadata,
          global_preprocessing_parameters, input_feature, mp, matrix_profile,
          window_data, timeseries, length_limit, timeseries_matrix, err>>

Params ==
    [window_size : 1..MaxWin,
     padding : PaddingModes,
     padding_value : PaddingValues,
     matrix_profile : BOOLEAN,
     timeseries_length_limit : 1..MaxLimit]

Init ==
    /\ pc = "start"
    /\ column \in SeqsUpTo(ColumnValues, MaxCol)
    /\ preprocessing_parameters \in Params
    /\ metadata = [has |-> FALSE, max_timeseries_length |-> 0]
    /\ global_preprocessing_parameters = [has |-> FALSE, offset |-> 0]
    /\ input_feature = [has |-> FALSE, max_sequence_length |-> 0,
                        embedding_size |-> 0, should_embed |-> TRUE]
    /\ mp = <<>>
    /\ matrix_profile = <<>>
    /\ window_data = <<>>
    /\ timeseries = <<>>
    /\ length_limit = 0
    /\ timeseries_matrix = <<>>
    /\ err = "none"

\* the stumpy outcomes a call can see; a single dummy when the option is off
StumpyOutcomes(col, seq_length, params) ==
    IF params.matrix_profile THEN build_stumpy_mp(col, seq_length)
    ELSE {[err |-> "none", mp |-> <<>>]}

\* metadata[name] = get_feature_meta(column, preprocessing_parameters)
GetFeatureMeta ==
    /\ pc = "start"
    /\ metadata' = get_feature_meta(column, preprocessing_parameters)
    /\ pc' = "meta"
    /\ UNCHANGED <<column, preprocessing_parameters,
                   global_preprocessing_parameters, input_feature, mp,
                   matrix_profile, window_data, timeseries, length_limit,
                   timeseries_matrix, err>>

\* a direct call of add_timeseries_matrix_profile on the column
AddTimeseriesMatrixProfile ==
    /\ pc = "start"
    /\ \E stumpy \in StumpyOutcomes(column, preprocessing_parameters.window_size,
                                    preprocessing_parameters) :
          LET r == add_timeseries_matrix_profile(
                       column, preprocessing_parameters.window_size,
                       preprocessing_parameters, stumpy)
          IN  /\ mp' = r.mp
              /\ matrix_profile' = r.matrix_profile
              /\ window_data' = r.window_data
              /\ err' = r.err
    /\ pc' = "windowed"
    /\ UNCHANGED <<column, preprocessing_parameters, metadata,
                   global_preprocessing_parameters, input_feature, timeseries,
                   length_limit, timeseries_matrix>>

\* a direct call of build_matrix on the rows of the column, '' rows given as
\* None when as_none, with any length_limit
BuildMatrix ==
    /\ pc = "start"
    /\ \E limit \in 0..MaxLimit, as_none \in BOOLEAN :
          LET rows == [i \in 1..Len(column) |->
                          IF as_none /\ column[i] = <<>> THEN None ELSE column[i]]
              r == build_matrix(rows, limit,
                                preprocessing_parameters.padding_value,
                                preprocessing_parameters.padding)
          IN  /\ timeseries' = rows
              /\ length_limit' = limit
              /\ timeseries_matrix' = r.matrix
              /\ err' = r.err
    /\ pc' = "matrix"
    /\ UNCHANGED <<column, preprocessing_parameters, metadata,
                   global_preprocessing_parameters, input_feature, mp,
                   matrix_profile, window_data>>

\* feature_data(column, metadata, preprocessing_parameters, global_...)
FeatureData ==
    /\ pc \in {"start", "meta"}
    /\ \E stumpy \in StumpyOutcomes(column, preprocessing_parameters.window_size,
                                    preprocessing_parameters) :
          LET seq_length == preprocessing_parameters.window_size
              got == IF metadata.has THEN metadata.max_timeseries_length ELSE 1
              max_timeseries_length == IF got < seq_length THEN seq_length ELSE got
              w == add_timeseries_matrix_profile(column, seq_length,
                                                 preprocessing_parameters, stumpy)
              r == build_matrix(w.window_data, metadata.max_timeseries_length,
                                preprocessing_parameters.padding_value,
                                preprocessing_parameters.padding)
              raised == IF w.err # "none" THEN w.err
                        ELSE IF ~metadata.has THEN "KeyError"
                        ELSE r.err
          IN  /\ mp' = w.mp
              /\ matrix_profile' = w.matrix_profile
              /\ window_data' = w.window_data
              /\ err' = raised
              /\ IF w.err = "none" /\ metadata.has
                 THEN /\ timeseries' = w.window_data
                      /\ length_limit' = metadata.max_timeseries_length
                      /\ timeseries_matrix' = r.matrix
                 ELSE UNCHANGED <<timeseries, length_limit, timeseries_matrix>>
              /\ IF raised = "none"
                 THEN /\ metadata' = [metadata EXCEPT
                             !.max_timeseries_length = max_timeseries_length]
                      /\ global_preprocessing_parameters' =
                             [has |-> TRUE, offset |-> seq_length - 1]
                 ELSE UNCHANGED <<metadata, global_preprocessing_parameters>>
    /\ pc' = "data"
    /\ UNCHANGED <<column, preprocessing_parameters, input_feature>>

\* update_config_with_metadata(input_feature, metadata[name])
UpdateConfigWithMetadata ==
    /\ pc = "data"
    /\ err = "none"
    /\ input_feature' = [has |-> TRUE,
                         max_sequence_length |-> metadata.max_timeseries_length,
                         embedding_size |-> 1,
                         should_embed |-> FALSE]
    /\ pc' = "config"
    /\ UNCHANGED <<column, preprocessing_parameters, metadata,
                   global_preprocessing_parameters, mp, matrix_profile,
                   window_data, timeseries, length_limit, timeseries_matrix, err>>

Next ==
    \/ GetFeatureMeta
    \/ AddTimeseriesMatrixProfile
    \/ BuildMatrix
    \/ FeatureData
    \/ UpdateConfigWithMetadata

Spec == Init /\ [][Next]_vars

\* ------------------------------------------------------------------ claims
\* build_matrix has returned: called directly, or from feature_data
MatrixBuilt == pc \in {"matrix", "data", "config"} /\ err = "none"
\* add_timeseries_matrix_profile has returned
Windowed ==
    /\ pc \in {"windowed", "data", "config"}
    /\ err \in {"none", "KeyError", "ValueError(float)"}
\* add_timeseries_matrix_profile has built the back-filled matrix_profile
BackFilled == pc \in {"windowed", "data", "config"} /\ mp # <<>>
seq_length == preprocessing_parameters.window_size

\* the float values of the tokens of a non-empty row
RowValues(ts) == [k \in 1..Len(tokenizer(ts)) |-> StrToFloat(tokenizer(ts)[k])]

\* C1: the matrix returned by build_matrix has exactly len(timeseries) rows
\* and every row has exactly length_limit columns, whatever the rows (None,
\* empty, shorter or longer than length_limit) and the padding mode.
C1_FixedWidth ==
    MatrixBuilt =>
        /\ Len(timeseries_matrix) = Len(timeseries)
        /\ \A i \in 1..Len(timeseries_matrix) :
              Len(timeseries_matrix[i]) = length_limit

\* a matrix built from an empty row, a row shorter and a row longer than the limit
C1_Witness ==
    /\ MatrixBuilt
    /\ \E i \in 1..Len(timeseries) : ~Truthy(timeseries[i])
    /\ \E i \in 1..Len(timeseries) :
          Truthy(timeseries[i]) /\ Len(tokenizer(timeseries[i])) < length_limit
    /\ \E i \in 1..Len(timeseries) :
          Truthy(timeseries[i]) /\ Len(tokenizer(timeseries[i])) > length_limit

\* C6: for a non-empty row with values v and k = min(len(v), length_limit),
\* the row of the matrix holds v[0..k-1] in order, in columns 0..k-1 when
\* padding is 'right' and in the last k columns otherwise; every other cell
\* is padding_value; a longer row keeps its first length_limit values.
C6_CellContents ==
    MatrixBuilt =>
        \A i \in 1..Len(timeseries) :
            Truthy(timeseries[i]) =>
                LET v == RowValues(timeseries[i])
                    k == Min(Len(v), length_limit)
                    first == IF preprocessing_parameters.padding = "right"
                             THEN 0 ELSE length_limit - k
                IN  \A c \in 1..length_limit :
                        timeseries_matrix[i][c] =
                            IF first < c /\ c <= first + k
                            THEN v[c - first]
                            ELSE preprocessing_parameters.padding_value

\* left padding of a row that is cut and of a row that is padded
C6_Witness ==
    /\ MatrixBuilt
    /\ preprocessing_parameters.padding = "left"
    /\ length_limit >= 1
    /\ \E i \in 1..Len(timeseries) :
          /\ Truthy(timeseries[i])
          /\ Len(tokenizer(timeseries[i])) > length_limit
          /\ RowValues(timeseries[i])[1] #
                 RowValues(timeseries[i])[Len(tokenizer(timeseries[i]))
                                          - length_limit + 1]
    /\ \E i \in 1..Len(timeseries) :
          Truthy(timeseries[i]) /\ Len(tokenizer(timeseries[i])) < length_limit

\* C2: when feature_data returns, the number of columns of the returned matrix
\* equals metadata['max_timeseries_length'] as left in the metadata dict, which
\* update_config_with_metadata then copies to max_sequence_length.
C2_ShapeConsistency ==
    (pc \in {"data", "config"} /\ err = "none") =>
        /\ \A i \in 1..Len(timeseries_matrix) :
              Len(timeseries_matrix[i]) = metadata.max_timeseries_length
        /\ pc = "config" =>
              \A i \in 1..Len(timeseries_matrix) :
                  Len(timeseries_matrix[i]) = input_feature.max_sequence_length

\* C3: add_timeseries_matrix_profile returns one entry per row of the column;
\* the entries at indexes 0..seq_length-2 are None and every later entry is
\* the space-separated string of exactly seq_length values.
C3_OneEntryPerRow ==
    Windowed =>
        /\ Len(window_data) = Len(column)
        /\ \A i \in 1..Len(window_data) :
              IF i < seq_length
              THEN window_data[i] = None
              ELSE /\ window_data[i] # None
                   /\ i <= Len(matrix_profile)
                   /\ window_data[i] =
                          Join([j \in 1..seq_length |->
                                   PyStr(matrix_profile[i - seq_length + j],
                                         preprocessing_parameters.matrix_profile)])

\* C4: without the matrix_profile option the window of row i >= seq_length-1
\* is column[i-seq_length+1] .. column[i], so that every value of the column,
\* the last one included, appears in a window.
C4_WindowOfPrecedingValues ==
    (Windowed /\ ~preprocessing_parameters.matrix_profile) =>
        \A i \in seq_length..Len(column) :
            /\ i <= Len(window_data)
            /\ window_data[i] = Join(SubSeq(column, i - seq_length + 1, i))

\* C5: the back-filled matrix_profile is seq_length-1 copies of mp[0] followed
\* by mp, and has exactly len(column) entries, for the stumpy profile and for
\* the raw column alike.
C5_BackfilledLength ==
    BackFilled =>
        /\ Len(matrix_profile) = Len(mp) + seq_length - 1
        /\ \A k \in 1..Len(matrix_profile) :
              matrix_profile[k] =
                  IF k < seq_length THEN mp[1] ELSE mp[k - seq_length + 1]
        /\ Len(matrix_profile) = Len(column)

====
